---------------------------- MODULE Spec2Model ----------------------------
(***************************************************************************)
(* Model of analytics-service: AnalyticsService (services/analytics.py)    *)
(* and the helpers of models/metrics.py.                                   *)
(*                                                                         *)
(* Representation.                                                         *)
(*  - A Python str is a sequence of character codes (<<>> is "", <<1>> is  *)
(*    "a", <<1, 2>> is "ab", <<2>> is "b"), so that truthiness ("not s")   *)
(*    and the ordering used by sorted() are computed, not assumed.         *)
(*  - A datetime is an integer number of days; timedelta(days=d) is d.     *)
(*  - A float that comes out of a division is an exact fraction            *)
(*    [num, den] in lowest terms with den > 0; round(x, 2) yields the      *)
(*    number of hundredths as an integer (6667 is 66.67).                  *)
(*  - Amounts are integers, so that sums are exact.                        *)
(*  - An Event is its user_id, event_type and timestamp; metadata is never *)
(*    read by the service.                                                 *)
(*  - op, arg and ret record the last call, its arguments and the value it *)
(*    returned.  last_query is a history variable: where a specification  *)
(*    records it (Remember), it is the last query made before the current  *)
(*    call and after the last ingestion call, with the clock it ran at.    *)
(***************************************************************************)
EXTENDS Integers, Sequences, FiniteSets

VARIABLES sales_data, user_data, events, now, op, arg, ret, last_query

vars == <<sales_data, user_data, events, now, op, arg, ret, last_query>>
logs == <<sales_data, user_data, events>>

(***************************************************************************)
(* Bounds of the model.                                                    *)
(***************************************************************************)
MaxLog == 2
MaxLogQ == 1
MaxSales == 2
MaxClock == 1
MaxSalesA == 10
MaxEventsA == 5
MaxSalesR == 3
MaxClockR == 3
MaxDays == 2
MaxUsersI == 2
MaxEventsI == 1
MaxSalesI == 1
MaxUsersE == 3
MaxEventsE == 2
MaxEventsT == 4
MaxLimit == 3

(***************************************************************************)
(* Generic helpers.                                                        *)
(***************************************************************************)
Abs(x) == IF x < 0 THEN 0 - x ELSE x

RECURSIVE GCD(_, _)
GCD(x, y) == IF y = 0 THEN x ELSE GCD(y, x % y)

\* Python float division n / d (d > 0), kept exact.
Div(n, d) ==
    LET g == GCD(Abs(n), d)
    IN  [num |-> n \div g, den |-> d \div g]

\* A float literal or an int-valued float.
Flt(n) == [num |-> n, den |-> 1]

\* Python's str ordering: by code point, a proper prefix first.
RECURSIVE StrLess(_, _)
StrLess(s, t) ==
    IF t = <<>> THEN FALSE
    ELSE IF s = <<>> THEN TRUE
    ELSE IF Head(s) # Head(t) THEN Head(s) < Head(t)
    ELSE StrLess(Tail(s), Tail(t))

\* sum(f(x) for x in seq)
RECURSIVE SumAmounts(_)
SumAmounts(seq) ==
    IF seq = <<>> THEN 0 ELSE seq[1].amount + SumAmounts(Tail(seq))

\* seq[:limit] of Python: a negative limit counts from the end.
Slice(seq, limit) ==
    IF limit >= 0
    THEN SubSeq(seq, 1, IF limit < Len(seq) THEN limit ELSE Len(seq))
    ELSE SubSeq(seq, 1, IF Len(seq) + limit > 0 THEN Len(seq) + limit ELSE 0)

\* sorted(list(S)) of a set of str
RECURSIVE SortedStrs(_)
SortedStrs(S) ==
    IF S = {} THEN <<>>
    ELSE LET m == CHOOSE x \in S : \A y \in S \ {x} : StrLess(x, y)
         IN  <<m>> \o SortedStrs(S \ {m})

\* round(n / d * 100, 2) in hundredths, ties to even.
Round2Pct(n, d) ==
    LET q == (n * 10000) \div d
        r == (n * 10000) % d
    IN  IF 2 * r > d THEN q + 1
        ELSE IF 2 * r = d THEN q + (q % 2)
        ELSE q

(***************************************************************************)
(* models/metrics.py                                                       *)
(***************************************************************************)
\* The variant that reports 100.0 for a first revenue (previous = 0 < current).
calculate_growth_rate_zero_prev_100(current, previous) ==
    IF previous = 0
    THEN (IF current > 0 THEN Flt(100) ELSE Flt(0))
    ELSE Div((current - previous) * 100, previous)

\* calculate_growth_rate: 0.0 whenever previous == 0.
calculate_growth_rate(current, previous) ==
    IF previous = 0 THEN Flt(0)
    ELSE Div((current - previous) * 100, previous)

(***************************************************************************)
(* AnalyticsService: state after __init__.                                 *)
(***************************************************************************)
NoCall == [op |-> "none"]

Init ==
    /\ sales_data = <<>>
    /\ user_data = <<>>
    /\ events = <<>>
    /\ now = 0
    /\ op = "init"
    /\ arg = <<>>
    /\ ret = <<>>
    /\ last_query = NoCall

\* datetime.now(): the wall clock read by the next call; it is naive local
\* time, which may be set forward or back between two calls.
Tick(t) ==
    /\ t # now
    /\ now' = t
    /\ op' = "tick"
    /\ arg' = <<>>
    /\ ret' = <<>>
    /\ UNCHANGED logs

(***************************************************************************)
(* Ingestion.                                                              *)
(***************************************************************************)
\* The variant without the amount guard: it appends whatever it is given.
TrackSaleNoGuard(amount, order_id, user_id) ==
    /\ op' = "track_sale"
    /\ arg' = [amount |-> amount, order_id |-> order_id, user_id |-> user_id]
    /\ sales_data' = Append(sales_data,
           [amount |-> amount, order_id |-> order_id,
            user_id |-> user_id, timestamp |-> now])
    /\ ret' = (amount > 0)
    /\ UNCHANGED <<user_data, events, now>>

\* track_sale: only the amount is validated; the ids are stored as given.
TrackSale(amount, order_id, user_id) ==
    /\ op' = "track_sale"
    /\ arg' = [amount |-> amount, order_id |-> order_id, user_id |-> user_id]
    /\ IF amount <= 0
       THEN /\ ret' = FALSE
            /\ UNCHANGED sales_data
       ELSE /\ sales_data' = Append(sales_data,
                  [amount |-> amount, order_id |-> order_id,
                   user_id |-> user_id, timestamp |-> now])
            /\ ret' = TRUE
    /\ UNCHANGED <<user_data, events, now>>

\* The variant that keeps one record per user_id: registering a known
\* user_id overwrites its record in place.
RegisterUserUpsert(user_id, is_active) ==
    /\ op' = "register_user"
    /\ arg' = [user_id |-> user_id, is_active |-> is_active]
    /\ IF user_id = <<>>
       THEN /\ ret' = FALSE
            /\ UNCHANGED user_data
       ELSE LET user == [user_id |-> user_id, is_active |-> is_active,
                         registered_at |-> now]
                known == {i \in DOMAIN user_data :
                            user_data[i].user_id = user_id}
            IN  /\ user_data' =
                      IF known = {} THEN Append(user_data, user)
                      ELSE [i \in DOMAIN user_data |->
                               IF i \in known THEN user ELSE user_data[i]]
                /\ ret' = TRUE
    /\ UNCHANGED <<sales_data, events, now>>

\* register_user
RegisterUser(user_id, is_active) ==
    /\ op' = "register_user"
    /\ arg' = [user_id |-> user_id, is_active |-> is_active]
    /\ IF user_id = <<>>
       THEN /\ ret' = FALSE
            /\ UNCHANGED user_data
       ELSE /\ user_data' = Append(user_data,
                  [user_id |-> user_id, is_active |-> is_active,
                   registered_at |-> now])
            /\ ret' = TRUE
    /\ UNCHANGED <<sales_data, events, now>>

\* event is the caller's Event: user_id, event_type and a timestamp of the
\* caller's choosing.
TrackEvent(event) ==
    /\ op' = "track_event"
    /\ arg' = event
    /\ IF event.user_id = <<>> \/ event.event_type = <<>>
       THEN /\ ret' = FALSE
            /\ UNCHANGED events
       ELSE /\ events' = Append(events, event)
            /\ ret' = TRUE
    /\ UNCHANGED <<sales_data, user_data, now>>

(***************************************************************************)
(* Queries.  Each query is an operator of the current state and the call's *)
(* arguments; the action of the same handler stores its value in ret and   *)
(* leaves the logs alone.                                                   *)
(***************************************************************************)
\* The variant that aggregates only the sales stamped at or after now.
get_sales_metrics_since_now(period) ==
    LET recent == SelectSeq(sales_data, LAMBDA s : s.timestamp >= now)
    IN  IF recent = <<>>
        THEN [total_revenue |-> 0, total_orders |-> 0,
              average_order_value |-> Flt(0), period |-> period]
        ELSE [total_revenue |-> SumAmounts(recent),
              total_orders |-> Len(recent),
              average_order_value |-> Div(SumAmounts(recent), Len(recent)),
              period |-> period]

get_sales_metrics(period) ==
    IF sales_data = <<>>
    THEN [total_revenue |-> 0, total_orders |-> 0,
          average_order_value |-> Flt(0), period |-> period]
    ELSE LET total_revenue == SumAmounts(sales_data)
             total_orders == Len(sales_data)
         IN  [total_revenue |-> total_revenue,
              total_orders |-> total_orders,
              average_order_value |->
                  IF total_orders > 0 THEN Div(total_revenue, total_orders)
                  ELSE Flt(0),
              period |-> period]

GetSalesMetrics(period) ==
    /\ op' = "get_sales_metrics"
    /\ arg' = [period |-> period]
    /\ ret' = get_sales_metrics(period)
    /\ UNCHANGED <<logs, now>>

get_user_metrics ==
    LET total_users == Len(user_data)
        active_users == Len(SelectSeq(user_data, LAMBDA u : u.is_active))
        week_ago == now - 7
        new_users ==
            Len(SelectSeq(user_data, LAMBDA u : u.registered_at >= week_ago))
    IN  [total_users |-> total_users,
         active_users |-> active_users,
         new_users |-> new_users,
         retention_rate |->
             IF total_users > 0 THEN Div(active_users * 100, total_users)
             ELSE Flt(0)]

GetUserMetrics ==
    /\ op' = "get_user_metrics"
    /\ arg' = <<>>
    /\ ret' = get_user_metrics
    /\ UNCHANGED <<logs, now>>

\* The keys of event_counts after the first n events: a dict keeps its keys
\* in the order they were first inserted.
RECURSIVE EventTypeKeys(_)
EventTypeKeys(n) ==
    IF n = 0 THEN <<>>
    ELSE LET prev == EventTypeKeys(n - 1)
             t == events[n].event_type
         IN  IF \E i \in DOMAIN prev : prev[i] = t THEN prev
             ELSE Append(prev, t)

\* event_counts.items()
event_counts ==
    LET keys == EventTypeKeys(Len(events))
    IN  [k \in DOMAIN keys |->
            [event_type |-> keys[k],
             count |-> Cardinality({i \in DOMAIN events :
                                      events[i].event_type = keys[k]})]]

\* A sort by descending count that puts an item before the earlier items of
\* equal count.
RECURSIVE SortedByCountUnstable(_)
SortedByCountUnstable(items) ==
    IF items = <<>> THEN <<>>
    ELSE LET rest == SortedByCountUnstable(SubSeq(items, 1, Len(items) - 1))
             x == items[Len(items)]
             k == Cardinality({i \in DOMAIN rest : rest[i].count > x.count})
         IN  SubSeq(rest, 1, k) \o <<x>> \o SubSeq(rest, k + 1, Len(rest))

\* sorted(items, key=lambda x: x[1], reverse=True): Python's sort is stable,
\* also under reverse=True, so items of equal count keep their order.
RECURSIVE SortedByCount(_)
SortedByCount(items) ==
    IF items = <<>> THEN <<>>
    ELSE LET rest == SortedByCount(SubSeq(items, 1, Len(items) - 1))
             x == items[Len(items)]
             k == Cardinality({i \in DOMAIN rest : rest[i].count >= x.count})
         IN  SubSeq(rest, 1, k) \o <<x>> \o SubSeq(rest, k + 1, Len(rest))

sorted_events == SortedByCount(event_counts)

get_top_events(limit) == Slice(sorted_events, limit)

GetTopEvents(limit) ==
    /\ op' = "get_top_events"
    /\ arg' = [limit |-> limit]
    /\ ret' = get_top_events(limit)
    /\ UNCHANGED <<logs, now>>

\* The variant whose current window is open at its start.
current_revenue_after_start(days) ==
    LET current_period_start == now - days
    IN  SumAmounts(SelectSeq(sales_data,
            LAMBDA s : s.timestamp > current_period_start))

current_revenue(days) ==
    LET current_period_start == now - days
    IN  SumAmounts(SelectSeq(sales_data,
            LAMBDA s : s.timestamp >= current_period_start))

previous_revenue(days) ==
    LET current_period_start == now - days
        previous_period_start == current_period_start - days
    IN  SumAmounts(SelectSeq(sales_data,
            LAMBDA s : /\ previous_period_start <= s.timestamp
                       /\ s.timestamp < current_period_start))

calculate_revenue_growth(days) ==
    calculate_growth_rate(current_revenue(days), previous_revenue(days))

\* ret holds the value returned; arg also keeps the two sums the handler
\* hands to calculate_growth_rate.
CalculateRevenueGrowth(days) ==
    /\ op' = "calculate_revenue_growth"
    /\ arg' = [days |-> days,
               current_revenue |-> current_revenue(days),
               previous_revenue |-> previous_revenue(days)]
    /\ ret' = calculate_revenue_growth(days)
    /\ UNCHANGED <<logs, now>>

\* The variant whose thresholds are exclusive (> instead of >=).
calculate_activity_level_strict(n_events, purchases) ==
    LET score == n_events + (purchases * 5)
    IN  IF score > 50 THEN "highly_active"
        ELSE IF score > 20 THEN "active"
        ELSE IF score > 5 THEN "moderate"
        ELSE "low"

calculate_activity_level(n_events, purchases) ==
    LET score == n_events + (purchases * 5)
    IN  IF score >= 50 THEN "highly_active"
        ELSE IF score >= 20 THEN "active"
        ELSE IF score >= 5 THEN "moderate"
        ELSE "low"

get_user_activity_stats(user_id) ==
    IF user_id = <<>> THEN [error |-> "user_id is required"]
    ELSE LET user_events == SelectSeq(events, LAMBDA e : e.user_id = user_id)
             user_sales == SelectSeq(sales_data, LAMBDA s : s.user_id = user_id)
         IN  IF user_events = <<>> /\ user_sales = <<>>
             THEN [user_id |-> user_id, total_events |-> 0,
                   total_purchases |-> 0, total_spent |-> 0,
                   activity_level |-> "inactive"]
             ELSE LET total_events == Len(user_events)
                      total_purchases == Len(user_sales)
                      total_spent == SumAmounts(user_sales)
                  IN  [user_id |-> user_id,
                       total_events |-> total_events,
                       total_purchases |-> total_purchases,
                       total_spent |-> total_spent,
                       activity_level |->
                           calculate_activity_level(total_events,
                                                    total_purchases),
                       average_purchase |->
                           IF total_purchases > 0
                           THEN Div(total_spent, total_purchases)
                           ELSE Flt(0)]

GetUserActivityStats(user_id) ==
    /\ op' = "get_user_activity_stats"
    /\ arg' = [user_id |-> user_id]
    /\ ret' = get_user_activity_stats(user_id)
    /\ UNCHANGED <<logs, now>>

\* The variant that takes activity stamped exactly at the cutoff for old.
active_user_ids_after_cutoff(days) ==
    LET cutoff_date == now - days
    IN  {events[i].user_id : i \in {j \in DOMAIN events :
                                      events[j].timestamp > cutoff_date}}
        \cup {sales_data[i].user_id : i \in {j \in DOMAIN sales_data :
                                      sales_data[j].timestamp > cutoff_date}}

active_user_ids(days) ==
    LET cutoff_date == now - days
    IN  {events[i].user_id : i \in {j \in DOMAIN events :
                                      events[j].timestamp >= cutoff_date}}
        \cup {sales_data[i].user_id : i \in {j \in DOMAIN sales_data :
                                      sales_data[j].timestamp >= cutoff_date}}

get_inactive_users(days) ==
    IF days <= 0 THEN <<>>
    ELSE LET all_user_ids == {user_data[i].user_id : i \in DOMAIN user_data}
             inactive_users == all_user_ids \ active_user_ids(days)
         IN  SortedStrs(inactive_users)

GetInactiveUsers(days) ==
    /\ op' = "get_inactive_users"
    /\ arg' = [days |-> days]
    /\ ret' = get_inactive_users(days)
    /\ UNCHANGED <<logs, now>>

\* The variant whose window ends at now.
engaged_users_until_now ==
    LET week_ago == now - 7
    IN  {events[i].user_id : i \in {j \in DOMAIN events :
            events[j].timestamp >= week_ago /\ events[j].timestamp <= now}}

engaged_users ==
    LET week_ago == now - 7
    IN  {events[i].user_id : i \in {j \in DOMAIN events :
                                      events[j].timestamp >= week_ago}}

calculate_engagement_rate ==
    IF user_data = <<>> THEN 0
    ELSE Round2Pct(Cardinality(engaged_users), Len(user_data))

CalculateEngagementRate ==
    /\ op' = "calculate_engagement_rate"
    /\ arg' = <<>>
    /\ ret' = calculate_engagement_rate
    /\ UNCHANGED <<logs, now>>

(***************************************************************************)
(* Inputs of the calls.                                                    *)
(***************************************************************************)
Amounts == {0 - 1, 0, 1, 2}
OrderIds == {<<>>, <<1>>}
Periods == {"daily", "weekly"}

(***************************************************************************)
(* SpecSales: the sales log and its metrics.                               *)
(***************************************************************************)
NextSales ==
    \/ /\ \E t \in 0..MaxClock : Tick(t)
       /\ UNCHANGED last_query
    \/ /\ Len(sales_data) < MaxSales
       /\ \E amount \in Amounts, order_id \in OrderIds,
             user_id \in {<<>>, <<1>>} :
             TrackSale(amount, order_id, user_id)
       /\ UNCHANGED last_query
    \/ /\ \E period \in Periods : GetSalesMetrics(period)
       /\ UNCHANGED last_query

SpecSales == Init /\ [][NextSales]_vars

(***************************************************************************)
(* SpecActivity: one user's events and purchases, up to a score past 50.   *)
(***************************************************************************)
NextActivity ==
    \/ /\ Len(events) < MaxEventsA
       /\ \E user_id \in {<<>>, <<1>>, <<2>>} :
             TrackEvent([user_id |-> user_id, event_type |-> <<1>>,
                         timestamp |-> 0])
       /\ UNCHANGED last_query
    \/ /\ Len(sales_data) < MaxSalesA
       /\ \E amount \in {0, 1} : TrackSale(amount, <<1>>, <<1>>)
       /\ UNCHANGED last_query
    \/ /\ \E user_id \in {<<>>, <<1>>, <<2>>} : GetUserActivityStats(user_id)
       /\ UNCHANGED last_query

SpecActivity == Init /\ [][NextActivity]_vars

(***************************************************************************)
(* SpecRevenue: sales stamped by a moving clock, and the growth query.     *)
(***************************************************************************)
NextRevenue ==
    \/ /\ \E t \in 0..MaxClockR : Tick(t)
       /\ UNCHANGED last_query
    \/ /\ Len(sales_data) < MaxSalesR
       /\ \E amount \in {0, 1, 2} : TrackSale(amount, <<1>>, <<1>>)
       /\ UNCHANGED last_query
    \/ /\ \E days \in (0 - 1)..MaxDays : CalculateRevenueGrowth(days)
       /\ UNCHANGED last_query

SpecRevenue == Init /\ [][NextRevenue]_vars

(***************************************************************************)
(* SpecInactive: registrations, events and sales, and the inactivity       *)
(* query.                                                                  *)
(***************************************************************************)
NextInactive ==
    \/ /\ \E t \in 0..MaxClock : Tick(t)
       /\ UNCHANGED last_query
    \/ /\ Len(user_data) < MaxUsersI
       /\ \E user_id \in {<<>>, <<1, 2>>, <<2>>} : RegisterUser(user_id, TRUE)
       /\ UNCHANGED last_query
    \/ /\ Len(events) < MaxEventsI
       /\ TrackEvent([user_id |-> <<1, 2>>, event_type |-> <<1>>,
                      timestamp |-> 0 - 1])
       /\ UNCHANGED last_query
    \/ /\ Len(sales_data) < MaxSalesI
       /\ TrackSale(1, <<1>>, <<2>>)
       /\ UNCHANGED last_query
    \/ /\ \E days \in (0 - 1)..MaxDays : GetInactiveUsers(days)
       /\ UNCHANGED last_query

SpecInactive == Init /\ [][NextInactive]_vars

(***************************************************************************)
(* SpecEngagement: registrations and events around the 7-day window.       *)
(***************************************************************************)
NextEngagement ==
    \/ /\ \E t \in 0..MaxClock : Tick(t)
       /\ UNCHANGED last_query
    \/ /\ Len(user_data) < MaxUsersE
       /\ \E user_id \in {<<>>, <<1>>} : RegisterUser(user_id, TRUE)
       /\ UNCHANGED last_query
    \/ /\ Len(events) < MaxEventsE
       /\ \E user_id \in {<<1>>, <<2>>}, timestamp \in {0 - 7, MaxClock + 1} :
             TrackEvent([user_id |-> user_id, event_type |-> <<1>>,
                         timestamp |-> timestamp])
       /\ UNCHANGED last_query
    \/ /\ CalculateEngagementRate
       /\ UNCHANGED last_query

SpecEngagement == Init /\ [][NextEngagement]_vars

(***************************************************************************)
(* SpecEvents: the event log and its ranking.                              *)
(***************************************************************************)
NextEvents ==
    \/ /\ Len(events) < MaxEventsT
       /\ \E user_id \in {<<>>, <<1>>},
             event_type \in {<<>>, <<1>>, <<1, 2>>, <<2>>} :
             TrackEvent([user_id |-> user_id, event_type |-> event_type,
                         timestamp |-> 0])
       /\ UNCHANGED last_query
    \/ /\ \E limit \in (0 - 2)..MaxLimit : GetTopEvents(limit)
       /\ UNCHANGED last_query

SpecEvents == Init /\ [][NextEvents]_vars

(***************************************************************************)
(* Spec: every handler, on small logs.                                     *)
(***************************************************************************)
Next ==
    \/ /\ \E t \in 0..MaxClock : Tick(t)
       /\ UNCHANGED last_query
    \/ /\ Len(sales_data) < MaxLog
       /\ \E amount \in {0, 1} : TrackSale(amount, <<1>>, <<1>>)
       /\ UNCHANGED last_query
    \/ /\ Len(user_data) < MaxLog
       /\ \E user_id \in {<<>>, <<1>>} : RegisterUser(user_id, TRUE)
       /\ UNCHANGED last_query
    \/ /\ Len(events) < MaxLog
       /\ \E user_id \in {<<>>, <<1>>}, event_type \in {<<>>, <<1>>} :
             TrackEvent([user_id |-> user_id, event_type |-> event_type,
                         timestamp |-> 0])
       /\ UNCHANGED last_query
    \/ /\ \E period \in Periods : GetSalesMetrics(period)
       /\ UNCHANGED last_query
    \/ /\ GetUserMetrics
       /\ UNCHANGED last_query
    \/ /\ \E limit \in {0, 1} : GetTopEvents(limit)
       /\ UNCHANGED last_query
    \/ /\ CalculateRevenueGrowth(1)
       /\ UNCHANGED last_query
    \/ /\ \E user_id \in {<<>>, <<1>>} : GetUserActivityStats(user_id)
       /\ UNCHANGED last_query
    \/ /\ GetInactiveUsers(1)
       /\ UNCHANGED last_query
    \/ /\ CalculateEngagementRate
       /\ UNCHANGED last_query

Spec == Init /\ [][Next]_vars

(***************************************************************************)
(* SpecRepeat: every query, repeated, with ingestion and the clock moving  *)
(* in between.                                                             *)
(***************************************************************************)
IsIngestion(o) == o \in {"track_sale", "register_user", "track_event"}

IsQuery(o) ==
    o \in {"get_sales_metrics", "get_user_metrics", "get_top_events",
           "calculate_revenue_growth", "get_user_activity_stats",
           "get_inactive_users", "calculate_engagement_rate"}

\* What a call is repeated with: the caller's arguments.
CallArgs(o, a) == IF o = "calculate_revenue_growth" THEN a.days ELSE a

\* The bookkeeping of last_query over a step: an ingestion call forgets it,
\* and the call the step replaces, if a query, becomes the last query.
Remember ==
    last_query' =
        IF IsIngestion(op') THEN NoCall
        ELSE IF IsQuery(op)
             THEN [op |-> op, arg |-> CallArgs(op, arg), ret |-> ret,
                   at |-> now]
             ELSE last_query

NextRepeat ==
    \/ /\ \E t \in {0, 1, 8} : Tick(t)
       /\ Remember
    \/ /\ Len(sales_data) < MaxLogQ
       /\ \E amount \in {0, 1} : TrackSale(amount, <<1>>, <<1>>)
       /\ Remember
    \/ /\ Len(user_data) < MaxLogQ
       /\ \E user_id \in {<<>>, <<1>>} : RegisterUser(user_id, TRUE)
       /\ Remember
    \/ /\ Len(events) < MaxLogQ
       /\ \E event_type \in {<<>>, <<1>>} :
             TrackEvent([user_id |-> <<1>>, event_type |-> event_type,
                         timestamp |-> 0 - 7])
       /\ Remember
    \/ /\ GetSalesMetrics("daily")
       /\ Remember
    \/ /\ GetUserMetrics
       /\ Remember
    \/ /\ \E limit \in {0, 1} : GetTopEvents(limit)
       /\ Remember
    \/ /\ CalculateRevenueGrowth(7)
       /\ Remember
    \/ /\ GetUserActivityStats(<<1>>)
       /\ Remember
    \/ /\ GetInactiveUsers(7)
       /\ Remember
    \/ /\ CalculateEngagementRate
       /\ Remember

SpecRepeat == Init /\ [][NextRepeat]_vars

(***************************************************************************)
(* Properties.                                                             *)
(***************************************************************************)
EventsOf(user_id) ==
    Cardinality({i \in DOMAIN events : events[i].user_id = user_id})

PurchasesOf(user_id) ==
    Cardinality({i \in DOMAIN sales_data : sales_data[i].user_id = user_id})

ScoreOf(user_id) == EventsOf(user_id) + 5 * PurchasesOf(user_id)

LevelOf(user_id) ==
    IF EventsOf(user_id) = 0 /\ PurchasesOf(user_id) = 0 THEN "inactive"
    ELSE IF ScoreOf(user_id) >= 50 THEN "highly_active"
    ELSE IF ScoreOf(user_id) >= 20 THEN "active"
    ELSE IF ScoreOf(user_id) >= 5 THEN "moderate"
    ELSE "low"

\* C1: for a non-empty user_id, get_user_activity_stats reports "inactive"
\* exactly when the user has no event and no sale, and otherwise the level
\* of score = events + 5 * purchases: highly_active from 50, active from 20,
\* moderate from 5, low below 5.
C1_ActivityLevel ==
    (op = "get_user_activity_stats" /\ arg.user_id # <<>>) =>
        /\ ret.activity_level = LevelOf(arg.user_id)
        /\ ret.total_events = EventsOf(arg.user_id)
        /\ ret.total_purchases = PurchasesOf(arg.user_id)

\* C1 witness: a user whose score is exactly 50 is reported highly_active.
C1_Witness ==
    /\ op = "get_user_activity_stats"
    /\ arg.user_id # <<>>
    /\ ScoreOf(arg.user_id) = 50
    /\ EventsOf(arg.user_id) > 0
    /\ ret.activity_level = "highly_active"

\* The sum of the amounts of the sales at the positions S of the log.
RECURSIVE AmountOver(_)
AmountOver(S) ==
    IF S = {} THEN 0
    ELSE LET i == CHOOSE j \in S : TRUE
         IN  sales_data[i].amount + AmountOver(S \ {i})

SalesStamped(InWindow(_)) ==
    {i \in DOMAIN sales_data : InWindow(sales_data[i].timestamp)}

\* C2 as stated: with currentStart = now - days and previousStart =
\* currentStart - days, the current revenue sums exactly the sales with
\* currentStart < timestamp <= now and the previous revenue exactly those
\* with previousStart < timestamp <= currentStart.  Stated here for days > 0
\* and a log in which no sale is stamped after now.
C2_StatedWindows ==
    (/\ op = "calculate_revenue_growth"
     /\ arg.days > 0
     /\ \A i \in DOMAIN sales_data : sales_data[i].timestamp <= now) =>
        LET currentStart == now - arg.days
            previousStart == currentStart - arg.days
        IN  /\ arg.current_revenue =
                  AmountOver(SalesStamped(
                      LAMBDA t : currentStart < t /\ t <= now))
            /\ arg.previous_revenue =
                  AmountOver(SalesStamped(
                      LAMBDA t : previousStart < t /\ t <= currentStart))

\* C2 amended: the current revenue sums exactly the sales with
\* timestamp >= currentStart, with no upper limit, and the previous revenue
\* exactly those with previousStart <= timestamp < currentStart.
C2_Windows ==
    op = "calculate_revenue_growth" =>
        LET currentStart == now - arg.days
            previousStart == currentStart - arg.days
        IN  /\ arg.current_revenue =
                  AmountOver(SalesStamped(LAMBDA t : currentStart <= t))
            /\ arg.previous_revenue =
                  AmountOver(SalesStamped(
                      LAMBDA t : previousStart <= t /\ t < currentStart))

\* C2 witness: a growth query over a log holding a sale stamped at
\* currentStart, one at previousStart and one after now.
C2_Witness ==
    /\ op = "calculate_revenue_growth"
    /\ arg.days > 0
    /\ \E i, j, k \in DOMAIN sales_data :
          /\ sales_data[i].timestamp = now - arg.days
          /\ sales_data[j].timestamp = now - 2 * arg.days
          /\ sales_data[k].timestamp > now
          /\ arg.current_revenue =
                 sales_data[i].amount + sales_data[k].amount
          /\ arg.previous_revenue = sales_data[j].amount

\* C3 as stated: with a previous revenue of 0 the growth is 0.0 when the
\* current revenue is 0 and 100.0 when it is positive; otherwise it is
\* (current - previous) / previous * 100.
C3_StatedGrowth ==
    op = "calculate_revenue_growth" =>
        LET current == arg.current_revenue
            previous == arg.previous_revenue
        IN  /\ (previous = 0 /\ current = 0) => ret = Flt(0)
            /\ (previous = 0 /\ current > 0) => ret = Flt(100)
            /\ previous # 0 =>
                  /\ ret.den > 0
                  /\ ret.num * previous = (current - previous) * 100 * ret.den

\* C3 amended: with a previous revenue of 0 the growth is 0.0 whatever the
\* current revenue; otherwise it is (current - previous) / previous * 100.
C3_Growth ==
    op = "calculate_revenue_growth" =>
        LET current == arg.current_revenue
            previous == arg.previous_revenue
        IN  /\ previous = 0 => ret = Flt(0)
            /\ previous # 0 =>
                  /\ ret.den > 0
                  /\ ret.num * previous = (current - previous) * 100 * ret.den

\* C3 witness: a growth query with no previous revenue and some current
\* revenue returns 0.0.
C3_Witness ==
    /\ op = "calculate_revenue_growth"
    /\ arg.previous_revenue = 0
    /\ arg.current_revenue > 0
    /\ ret = Flt(0)

Registered == {user_data[i].user_id : i \in DOMAIN user_data}

\* The timestamps of a user's events and sales.
ActivityStamps(user_id) ==
    {events[i].timestamp :
        i \in {j \in DOMAIN events : events[j].user_id = user_id}}
    \cup {sales_data[i].timestamp :
        i \in {j \in DOMAIN sales_data : sales_data[j].user_id = user_id}}

Ascending(seq) ==
    \A i \in 1..(Len(seq) - 1) : StrLess(seq[i], seq[i + 1])

Elements(seq) == {seq[i] : i \in DOMAIN seq}

\* C4 as stated: for days > 0 get_inactive_users returns the ascending,
\* duplicate-free list of the registered user_ids whose latest event or sale
\* is absent or stamped <= now - days; for days <= 0 it returns [].
C4_StatedInactive ==
    op = "get_inactive_users" =>
        IF arg.days <= 0 THEN ret = <<>>
        ELSE /\ Ascending(ret)
             /\ Elements(ret) =
                   {u \in Registered :
                       \A t \in ActivityStamps(u) : t <= now - arg.days}

\* C4 amended: the same, with a user inactive when the latest event or sale
\* is absent or stamped strictly before now - days (< instead of <=).
C4_Inactive ==
    op = "get_inactive_users" =>
        IF arg.days <= 0 THEN ret = <<>>
        ELSE /\ Ascending(ret)
             /\ Elements(ret) =
                   {u \in Registered :
                       \A t \in ActivityStamps(u) : t < now - arg.days}

\* C4 witness: a query that lists one registered user and leaves out
\* another whose latest activity is stamped exactly at now - days.
C4_Witness ==
    /\ op = "get_inactive_users"
    /\ arg.days > 0
    /\ Len(ret) > 0
    /\ \E u \in Registered :
          /\ ActivityStamps(u) # {}
          /\ \A t \in ActivityStamps(u) : t <= now - arg.days
          /\ \E t \in ActivityStamps(u) : t = now - arg.days
          /\ u \notin Elements(ret)

\* ret is n / d * 100 rounded to the nearest hundredth.
IsRoundedPct(r, n, d) ==
    /\ 2 * (r * d - n * 10000) <= d
    /\ 2 * (n * 10000 - r * d) <= d

Occurrences(event_type) ==
    Cardinality({i \in DOMAIN events : events[i].event_type = event_type})

\* The position in the event log of the first event of a type.
FirstTracked(event_type) ==
    CHOOSE i \in DOMAIN events :
        /\ events[i].event_type = event_type
        /\ \A j \in 1..(i - 1) : events[j].event_type # event_type

\* C6 as stated: get_top_events lists the event types by descending count,
\* and types of equal count by ascending alphabetical event_type.
C6_StatedAlphabeticalTies ==
    op = "get_top_events" =>
        \A i, j \in DOMAIN ret :
            i < j =>
                \/ ret[i].count > ret[j].count
                \/ /\ ret[i].count = ret[j].count
                   /\ StrLess(ret[i].event_type, ret[j].event_type)

\* C6 amended: get_top_events lists the event types, each with its number
\* of occurrences, by descending count, and types of equal count in the
\* order in which they were first tracked.
C6_Ranking ==
    op = "get_top_events" =>
        /\ \A i \in DOMAIN ret :
              /\ ret[i].count = Occurrences(ret[i].event_type)
              /\ ret[i].count > 0
        /\ \A i, j \in DOMAIN ret :
              i < j =>
                  \/ ret[i].count > ret[j].count
                  \/ /\ ret[i].count = ret[j].count
                     /\ FirstTracked(ret[i].event_type)
                            < FirstTracked(ret[j].event_type)
        /\ arg.limit >= Cardinality({events[i].event_type : i \in DOMAIN events})
              => {ret[i].event_type : i \in DOMAIN ret}
                     = {events[i].event_type : i \in DOMAIN events}

\* C6 witness: a ranking in which a type tracked later but counted more
\* comes first, followed by two types of equal count that are not in
\* alphabetical order.
C6_Witness ==
    /\ op = "get_top_events"
    /\ Len(ret) = 3
    /\ ret[1].count > ret[2].count
    /\ FirstTracked(ret[1].event_type) > FirstTracked(ret[2].event_type)
    /\ ret[2].count = ret[3].count
    /\ StrLess(ret[3].event_type, ret[2].event_type)

\* C7: get_top_events(limit) returns [] for every limit <= 0 and, for
\* limit > 0, the first min(limit, number of event types) entries of the
\* full ranking.
C7_StatedLimit ==
    op = "get_top_events" =>
        ret = IF arg.limit <= 0 THEN <<>>
              ELSE SubSeq(sorted_events, 1,
                          IF arg.limit < Len(sorted_events) THEN arg.limit
                          ELSE Len(sorted_events))

\* C8: get_sales_metrics returns the sum of all recorded amounts, the
\* number of recorded sales and their quotient (0 with no sale), whatever
\* the period label and the sales' timestamps.
C8_SalesMetrics ==
    op = "get_sales_metrics" =>
        /\ ret.total_revenue = AmountOver(DOMAIN sales_data)
        /\ ret.total_orders = Len(sales_data)
        /\ ret.average_order_value.den > 0
        /\ IF Len(sales_data) > 0
           THEN ret.average_order_value.num * Len(sales_data)
                    = AmountOver(DOMAIN sales_data)
                          * ret.average_order_value.den
           ELSE ret.average_order_value.num = 0
        /\ ret.period = arg.period

\* C8 witness: metrics labelled "weekly" over two sales of different
\* amounts and different timestamps, one of them before now, averaging 3/2.
C8_Witness ==
    /\ op = "get_sales_metrics"
    /\ arg.period = "weekly"
    /\ Len(sales_data) = 2
    /\ sales_data[1].timestamp < now
    /\ sales_data[2].timestamp # sales_data[1].timestamp
    /\ ret.total_revenue = 3
    /\ ret.average_order_value = [num |-> 3, den |-> 2]

\* C9: track_sale with amount <= 0 returns False and leaves the sales log
\* (and the other logs) exactly as it was, whatever the ids.
C9_RejectNonPositive ==
    [][(op' = "track_sale" /\ arg'.amount <= 0) =>
           (ret' = FALSE /\ sales_data' = sales_data /\ logs' = logs)]_vars

\* C9 witness: a sale of a negative amount with empty ids was refused on a
\* log that holds a record.
C9_Witness ==
    /\ op = "track_sale"
    /\ arg.amount < 0
    /\ arg.order_id = <<>>
    /\ arg.user_id = <<>>
    /\ ret = FALSE
    /\ Len(sales_data) > 0

\* C10: track_sale with a positive amount but an empty order_id or user_id
\* returns False and appends nothing, so every record of the sales log has
\* amount > 0, a non-empty order_id and a non-empty user_id.
C10_StatedValidIds ==
    /\ (/\ op = "track_sale"
        /\ arg.amount > 0
        /\ (arg.order_id = <<>> \/ arg.user_id = <<>>)) => ret = FALSE
    /\ \A i \in DOMAIN sales_data :
          /\ sales_data[i].amount > 0
          /\ sales_data[i].order_id # <<>>
          /\ sales_data[i].user_id # <<>>

\* The log after the step is the log before it, or that log with one record
\* added at its end.
GrewByAtMostOne(before, after) ==
    \/ after = before
    \/ /\ Len(after) = Len(before) + 1
       /\ SubSeq(after, 1, Len(before)) = before

\* C11: every step leaves each log unchanged or extended by one record at
\* its end; an ingestion call that returns False leaves the three logs
\* unchanged; one that returns True extends its own log by exactly one
\* record and leaves the other two unchanged; a query leaves the three logs
\* unchanged.
C11_AppendOnly ==
    [][/\ GrewByAtMostOne(sales_data, sales_data')
       /\ GrewByAtMostOne(user_data, user_data')
       /\ GrewByAtMostOne(events, events')
       /\ (IsIngestion(op') /\ ret' = FALSE) => logs' = logs
       /\ (op' = "track_sale" /\ ret' = TRUE) =>
             /\ Len(sales_data') = Len(sales_data) + 1
             /\ user_data' = user_data /\ events' = events
       /\ (op' = "register_user" /\ ret' = TRUE) =>
             /\ Len(user_data') = Len(user_data) + 1
             /\ sales_data' = sales_data /\ events' = events
       /\ (op' = "track_event" /\ ret' = TRUE) =>
             /\ Len(events') = Len(events) + 1
             /\ sales_data' = sales_data /\ user_data' = user_data
       /\ IsQuery(op') => logs' = logs]_vars

\* C11 witness: each log holds two records, the last call was a track_event
\* that returned True and appended its event behind an older one.
C11_Witness ==
    /\ Len(sales_data) = 2
    /\ Len(user_data) = 2
    /\ Len(events) = 2
    /\ op = "track_event"
    /\ ret = TRUE
    /\ events[2] = arg

\* The current call repeats the last query: the same query with the same
\* arguments, and no ingestion call in between.
Repeated ==
    /\ IsQuery(op)
    /\ last_query.op = op
    /\ last_query.arg = CallArgs(op, arg)

\* The queries that do not read the clock.
ClockFree ==
    {"get_sales_metrics", "get_top_events", "get_user_activity_stats"}

\* C12 as stated: a query repeated with the same arguments and no ingestion
\* call in between returns the same result, also when the clock has
\* advanced between the two calls.
C12_StatedIdempotent ==
    (Repeated /\ last_query.at <= now) => ret = last_query.ret

\* C12 amended: a repeated query returns the same result when the clock
\* reads the same at both calls; get_sales_metrics, get_top_events and
\* get_user_activity_stats return the same result also when it has moved.
C12_Idempotent ==
    (Repeated /\ (last_query.at = now \/ op \in ClockFree)) =>
        ret = last_query.ret

\* C12 witness: sales metrics over a non-empty log, asked a second time
\* after the clock has advanced, and equal to the first answer.
C12_Witness ==
    /\ Repeated
    /\ op = "get_sales_metrics"
    /\ last_query.at < now
    /\ ret.total_orders > 0
    /\ ret = last_query.ret

\* C13: calculate_engagement_rate returns a percentage between 0 and 100
\* inclusive (0 to 10000 hundredths).
C13_StatedRange ==
    op = "calculate_engagement_rate" => (0 <= ret /\ ret <= 10000)

=============================================================================
